---- MODULE Spec2Model ----
(***************************************************************************)
(* Model of authentication/securestore/main.go: the credential store       *)
(* adapter over the 99designs/keyring library.                             *)
(*                                                                         *)
(* State: the OS secure stores (one item slot under ItemKey per backend),  *)
(* the list of backends the keyring library reports as available, and a    *)
(* record of the most recent call of the adapter (arguments, results and   *)
(* the keyring operations the call attempted).                             *)
(*                                                                         *)
(* The keyring library is an external collaborator.  Its operations are    *)
(* modelled by their contract: Open, Set, Get and Remove may each fail     *)
(* (the `fault' input of every action chooses whether one does); a failed  *)
(* operation leaves the store as it was; Get and Remove report             *)
(* ErrKeyNotFound exactly when no item is stored under the key.            *)
(* keyring.AvailableBackends() is fixed for the life of the process and    *)
(* lists every backend at most once.                                       *)
(*                                                                         *)
(* Byte sequences are sequences of numbers.  A number below 256 is one     *)
(* byte.  A number 255 + n stands for n bytes of payload that deflate      *)
(* cannot shorten (Payload(n)), so that blobs of the size of the Windows   *)
(* ceiling stay small values; Size is the length in bytes, Go's len.       *)
(***************************************************************************)
EXTENDS Integers, Sequences, FiniteSets, TLC

VARIABLES
    osAvail,   \* what keyring.AvailableBackends() returns
    store,     \* per backend, the item under ItemKey, or NoItem
    last,      \* the most recent call: arguments, results, the keyring
               \* operations it attempted (trace), the error the keyring
               \* operation returned (ring) and, for a get that directly
               \* follows a successful upsert on its backend, that upsert's
               \* input (justWritten)
    latest     \* history: per backend, the input of the latest successful
               \* upsert since the last successful remove

vars == <<osAvail, store, last, latest>>

----------------------------------------------------------------------------
(* Bounds of the model *)

\* longest list of backends the keyring library reports as available
MaxAvail == 2
\* longest run of one byte value among the short credential blobs given to upsert
MaxRun == 1

----------------------------------------------------------------------------
(* Constants of main.go *)

KindInternetPassword == "Internet password"
ItemKey == "RedHatSSO"
MaxWindowsByteSize == 2500

WinCredBackend == "wincred"
KeychainBackend == "keychain"
SecretServiceBackend == "secret-service"
PassBackend == "pass"
\* a backend of the keyring library that main.go does not allow
FileBackend == "file"

AllowedBackends ==
    <<WinCredBackend, KeychainBackend, SecretServiceBackend, PassBackend>>

\* error values
Nil == "nil"
ErrKeyringUnavailable == "keyring is valid but is not available on the current OS"
ErrKeyringInvalid == "keyring is invalid"
ErrKeyNotFound == "keyring.ErrKeyNotFound"
ErrOpen == "keyring.Open failed"
ErrStore == "keyring operation failed"
ErrKeychainDenied == "Keychain Error. (-25244)"
ErrKeychainHint == "Keychain Error. (-25244) ... check the permissions in the Keychain"
ErrTooLarge == "credentials are too large for Windows Credential Manager"
ErrHeader == "gzip: invalid header"
ErrChecksum == "gzip: invalid checksum"
ErrUnexpectedEOF == "unexpected EOF"
ErrCorrupt == "flate: corrupt input"
ErrEOF == "EOF"

\* errors that only the keyring library produces
StoreFailures == {ErrOpen, ErrStore, ErrKeychainDenied, ErrKeychainHint}
\* errors that only decompressConfig produces
CodecErrors == {ErrHeader, ErrChecksum, ErrUnexpectedEOF, ErrCorrupt, ErrEOF}

NoItem == [Key |-> ""]

----------------------------------------------------------------------------
(* Byte sequences *)

Range(s) == {s[i] : i \in DOMAIN s}

Min(a, b) == IF a < b THEN a ELSE b

Prefix(s, k) == SubSeq(s, 1, Min(k, Len(s)))

Run(v, n) == [i \in 1..n |-> v]

\* n bytes of incompressible payload, n > 0
Payload(n) == <<255 + n>>

Width(e) == IF e < 256 THEN 1 ELSE e - 255

\* len() of a byte slice
RECURSIVE Size(_)
Size(s) == IF s = <<>> THEN 0 ELSE Width(Head(s)) + Size(Tail(s))

\* the shortest prefix of s holding at least n bytes (all of s if there is none)
RECURSIVE TakeBytes(_, _)
TakeBytes(s, n) ==
    IF n <= 0 \/ s = <<>> THEN <<>>
    ELSE <<Head(s)>> \o TakeBytes(Tail(s), n - Width(Head(s)))

\* the k low bytes of n, least significant first
LE(n, k) == [i \in 1..k |-> (n \div (256 ^ (i - 1))) % 256]

RECURSIVE FromLE(_)
FromLE(s) == IF s = <<>> THEN 0 ELSE Head(s) + 256 * FromLE(Tail(s))

\* stands for the CRC-32 of the gzip trailer: a sum over the bytes, position
\* weighted (it and the lengths of the model stay far below 2^32, so the
\* trailer's four bytes hold them without wrapping)
RECURSIVE Checksum(_)
Checksum(x) ==
    IF x = <<>> THEN 0
    ELSE Len(x) * (IF Head(x) < 256 THEN Head(x) + 1 ELSE 131 * Width(Head(x)))
         + Checksum(Tail(x))

----------------------------------------------------------------------------
(* gzip, as compress/gzip frames it: ten header bytes, one final deflate   *)
(* block, then CRC and length of the uncompressed data.  The deflate block *)
(* is a stored block (type 00, as for empty input) or, for a run of one    *)
(* byte value, a four-byte block standing for a Huffman-coded one.         *)

GzipHeader == <<31, 139, 8, 0, 0, 0, 0, 0, 0, 255>>

Deflate(x) ==
    IF Len(x) > 0 /\ x[1] < 256 /\ \A i \in DOMAIN x : x[i] = x[1]
    THEN <<3, x[1]>> \o LE(Len(x), 2)
    ELSE <<1>> \o LE(Size(x), 2) \o LE(65535 - Size(x), 2) \o x

\* result of reading one deflate block at the head of s
Inflate(s) ==
    IF Len(s) = 0 THEN [err |-> ErrUnexpectedEOF, data |-> <<>>, rest |-> <<>>]
    ELSE IF s[1] = 1 THEN
        IF Len(s) < 5 THEN [err |-> ErrUnexpectedEOF, data |-> <<>>, rest |-> <<>>]
        ELSE LET n == FromLE(SubSeq(s, 2, 3))
                 data == TakeBytes(SubSeq(s, 6, Len(s)), n)
             IN
             IF FromLE(SubSeq(s, 4, 5)) # 65535 - n
             THEN [err |-> ErrCorrupt, data |-> <<>>, rest |-> <<>>]
             ELSE IF Size(data) < n
             THEN [err |-> ErrUnexpectedEOF, data |-> <<>>, rest |-> <<>>]
             ELSE IF Size(data) > n
             THEN [err |-> ErrCorrupt, data |-> <<>>, rest |-> <<>>]
             ELSE [err |-> Nil, data |-> data,
                   rest |-> SubSeq(s, 6 + Len(data), Len(s))]
    ELSE IF s[1] = 3 THEN
        IF Len(s) < 4 THEN [err |-> ErrUnexpectedEOF, data |-> <<>>, rest |-> <<>>]
        ELSE [err |-> Nil, data |-> Run(s[2], FromLE(SubSeq(s, 3, 4))),
              rest |-> SubSeq(s, 5, Len(s))]
    ELSE [err |-> ErrCorrupt, data |-> <<>>, rest |-> <<>>]

\* compressConfig without gz.Close(): the trailer is never written
compressConfigNoClose(creds) ==
    [data |-> GzipHeader \o Deflate(creds), err |-> Nil]

\* compressConfig handing back the bytes it was given
compressConfigRaw(creds) == [data |-> creds, err |-> Nil]

\* gzip.Writer over a bytes.Buffer: Write and Close cannot fail
compressConfig(creds) ==
    [data |-> GzipHeader \o Deflate(creds)
                \o LE(Checksum(creds), 4) \o LE(Size(creds), 4),
     err |-> Nil]

\* gzip.Reader reads every member of the stream (multistream), to the end
RECURSIVE GzipRead(_, _)
GzipRead(s, first) ==
    IF Len(s) = 0
    THEN [data |-> <<>>, err |-> IF first THEN ErrEOF ELSE Nil]
    ELSE IF Size(s) < Len(GzipHeader) THEN [data |-> <<>>, err |-> ErrUnexpectedEOF]
    ELSE IF Prefix(s, 3) # Prefix(GzipHeader, 3)
    THEN [data |-> <<>>, err |-> ErrHeader]
    ELSE LET blk == Inflate(SubSeq(s, Len(GzipHeader) + 1, Len(s))) IN
         IF blk.err # Nil THEN [data |-> <<>>, err |-> blk.err]
         ELSE IF Len(blk.rest) < 8 THEN [data |-> <<>>, err |-> ErrUnexpectedEOF]
         ELSE IF \/ FromLE(SubSeq(blk.rest, 1, 4)) # Checksum(blk.data)
                 \/ FromLE(SubSeq(blk.rest, 5, 8)) # Size(blk.data)
         THEN [data |-> <<>>, err |-> ErrChecksum]
         ELSE LET more == GzipRead(SubSeq(blk.rest, 9, Len(blk.rest)), FALSE) IN
              IF more.err # Nil THEN [data |-> <<>>, err |-> more.err]
              ELSE [data |-> blk.data \o more.data, err |-> Nil]

decompressConfig(creds) == GzipRead(creds, TRUE)

----------------------------------------------------------------------------
(* Backend validation *)

\* inner loop of AvailableBackends: the allowed names equal to avail
RECURSIVE MatchAllowed(_, _)
MatchAllowed(avail, j) ==
    IF j > Len(AllowedBackends) THEN <<>>
    ELSE (IF avail = AllowedBackends[j] THEN <<AllowedBackends[j]>> ELSE <<>>)
         \o MatchAllowed(avail, j + 1)

RECURSIVE FilterAvail(_, _)
FilterAvail(os, i) ==
    IF i > Len(os) THEN <<>>
    ELSE MatchAllowed(os[i], 1) \o FilterAvail(os, i + 1)

\* AvailableBackends with the loops exchanged: the result in allow-list order
AvailableBackendsAllowOrder ==
    SelectSeq(AllowedBackends, LAMBDA a : a \in Range(osAvail))

AvailableBackends == FilterAvail(osAvail, 1)

IsBackendAvailable(backend) ==
    IF backend = "" THEN FALSE
    ELSE backend \in Range(AvailableBackends)

\* ValidateBackend asking for availability before the allow-list
ValidateBackendAvailFirst(backend) ==
    IF backend = "" THEN ErrKeyringInvalid
    ELSE IF backend \notin Range(osAvail) THEN ErrKeyringUnavailable
    ELSE IF backend \notin Range(AllowedBackends) THEN ErrKeyringInvalid
    ELSE Nil

ValidateBackend(backend) ==
    IF backend = "" THEN ErrKeyringInvalid
    ELSE IF backend \notin Range(AllowedBackends)
    THEN ErrKeyringInvalid
    ELSE IF ~ IsBackendAvailable(backend) THEN ErrKeyringUnavailable
    ELSE Nil

----------------------------------------------------------------------------
(* The three operations, as functions of the store and of the fault the    *)
(* keyring library raises during the call ("none", "open", "op", "denied") *)

NewItem(data) ==
    [Key |-> ItemKey, Label |-> ItemKey, Description |-> KindInternetPassword,
     Data |-> data]

\* UpsertConfigToKeyring without the call of ValidateBackend
UpsertNoValidate(backend, creds, fault) ==
    LET c == compressConfig(creds)
    IN  IF backend \notin Range(osAvail)
        THEN [store |-> store, out |-> <<>>, err |-> ErrOpen,
              trace |-> <<"open">>, ring |-> ErrOpen]
        ELSE IF fault = "open"
        THEN [store |-> store, out |-> <<>>, err |-> ErrOpen,
              trace |-> <<"open">>, ring |-> ErrOpen]
        ELSE IF Size(c.data) > MaxWindowsByteSize /\ backend = WinCredBackend
        THEN [store |-> store, out |-> <<>>, err |-> ErrTooLarge,
              trace |-> <<"open">>, ring |-> "-"]
        ELSE IF fault # "none"
        THEN [store |-> store, out |-> <<>>, err |-> ErrStore,
              trace |-> <<"open", "set">>, ring |-> ErrStore]
        ELSE [store |-> [store EXCEPT ![backend] = NewItem(c.data)],
              out |-> <<>>, err |-> Nil, trace |-> <<"open", "set">>, ring |-> Nil]

\* UpsertConfigToKeyring comparing with >= instead of >
UpsertOffByOne(backend, creds, fault) ==
    LET v == ValidateBackend(backend)
        c == compressConfig(creds)
    IN  IF v # Nil
        THEN [store |-> store, out |-> <<>>, err |-> v, trace |-> <<>>, ring |-> "-"]
        ELSE IF fault = "open"
        THEN [store |-> store, out |-> <<>>, err |-> ErrOpen,
              trace |-> <<"open">>, ring |-> ErrOpen]
        ELSE IF Size(c.data) >= MaxWindowsByteSize /\ backend = WinCredBackend
        THEN [store |-> store, out |-> <<>>, err |-> ErrTooLarge,
              trace |-> <<"open">>, ring |-> "-"]
        ELSE IF fault # "none"
        THEN [store |-> store, out |-> <<>>, err |-> ErrStore,
              trace |-> <<"open", "set">>, ring |-> ErrStore]
        ELSE [store |-> [store EXCEPT ![backend] = NewItem(c.data)],
              out |-> <<>>, err |-> Nil, trace |-> <<"open", "set">>, ring |-> Nil]

\* UpsertConfigToKeyring keeping an item that is already there
UpsertKeepExisting(backend, creds, fault) ==
    LET v == ValidateBackend(backend)
        c == compressConfig(creds)
    IN  IF v # Nil
        THEN [store |-> store, out |-> <<>>, err |-> v, trace |-> <<>>, ring |-> "-"]
        ELSE IF fault = "open"
        THEN [store |-> store, out |-> <<>>, err |-> ErrOpen,
              trace |-> <<"open">>, ring |-> ErrOpen]
        ELSE IF Size(c.data) > MaxWindowsByteSize /\ backend = WinCredBackend
        THEN [store |-> store, out |-> <<>>, err |-> ErrTooLarge,
              trace |-> <<"open">>, ring |-> "-"]
        ELSE IF fault # "none"
        THEN [store |-> store, out |-> <<>>, err |-> ErrStore,
              trace |-> <<"open", "set">>, ring |-> ErrStore]
        ELSE IF store[backend] # NoItem
        THEN [store |-> store, out |-> <<>>, err |-> Nil,
              trace |-> <<"open", "set">>, ring |-> Nil]
        ELSE [store |-> [store EXCEPT ![backend] = NewItem(c.data)],
              out |-> <<>>, err |-> Nil, trace |-> <<"open", "set">>, ring |-> Nil]

UpsertConfigToKeyring(backend, creds, fault) ==
    LET v == ValidateBackend(backend)
        c == compressConfig(creds)
    IN  IF v # Nil
        THEN [store |-> store, out |-> <<>>, err |-> v, trace |-> <<>>, ring |-> "-"]
        ELSE IF fault = "open"
        THEN [store |-> store, out |-> <<>>, err |-> ErrOpen,
              trace |-> <<"open">>, ring |-> ErrOpen]
        ELSE IF c.err # Nil
        THEN [store |-> store, out |-> <<>>, err |-> c.err,
              trace |-> <<"open">>, ring |-> "-"]
        ELSE IF Size(c.data) > MaxWindowsByteSize /\ backend = WinCredBackend
        THEN [store |-> store, out |-> <<>>, err |-> ErrTooLarge,
              trace |-> <<"open">>, ring |-> "-"]
        ELSE IF fault # "none"
        THEN [store |-> store, out |-> <<>>, err |-> ErrStore,
              trace |-> <<"open", "set">>, ring |-> ErrStore]
        ELSE [store |-> [store EXCEPT ![backend] = NewItem(c.data)],
              out |-> <<>>, err |-> Nil, trace |-> <<"open", "set">>, ring |-> Nil]

\* RemoveConfigFromKeyring without the ErrKeyNotFound branch
RemoveNotFoundIsError(backend, fault) ==
    LET v == ValidateBackend(backend) IN
    IF v # Nil
    THEN [store |-> store, out |-> <<>>, err |-> v, trace |-> <<>>, ring |-> "-"]
    ELSE IF fault = "open"
    THEN [store |-> store, out |-> <<>>, err |-> ErrOpen,
          trace |-> <<"open">>, ring |-> ErrOpen]
    ELSE IF fault = "op"
    THEN [store |-> store, out |-> <<>>, err |-> ErrStore,
          trace |-> <<"open", "remove">>, ring |-> ErrStore]
    ELSE IF fault = "denied"
    THEN [store |-> store, out |-> <<>>, err |-> ErrKeychainHint,
          trace |-> <<"open", "remove">>, ring |-> ErrKeychainDenied]
    ELSE IF store[backend] = NoItem
    THEN [store |-> store, out |-> <<>>, err |-> ErrKeyNotFound,
          trace |-> <<"open", "remove">>, ring |-> ErrKeyNotFound]
    ELSE [store |-> [store EXCEPT ![backend] = NoItem], out |-> <<>>, err |-> Nil,
          trace |-> <<"open", "remove">>, ring |-> Nil]

RemoveConfigFromKeyring(backend, fault) ==
    LET v == ValidateBackend(backend) IN
    IF v # Nil
    THEN [store |-> store, out |-> <<>>, err |-> v, trace |-> <<>>, ring |-> "-"]
    ELSE IF fault = "open"
    THEN [store |-> store, out |-> <<>>, err |-> ErrOpen,
          trace |-> <<"open">>, ring |-> ErrOpen]
    ELSE IF fault = "op"
    THEN [store |-> store, out |-> <<>>, err |-> ErrStore,
          trace |-> <<"open", "remove">>, ring |-> ErrStore]
    ELSE IF fault = "denied"
    THEN [store |-> store, out |-> <<>>, err |-> ErrKeychainHint,
          trace |-> <<"open", "remove">>, ring |-> ErrKeychainDenied]
    ELSE IF store[backend] = NoItem
    THEN [store |-> store, out |-> <<>>, err |-> Nil,
          trace |-> <<"open", "remove">>, ring |-> ErrKeyNotFound]
    ELSE [store |-> [store EXCEPT ![backend] = NoItem], out |-> <<>>, err |-> Nil,
          trace |-> <<"open", "remove">>, ring |-> Nil]

\* GetConfigFromKeyring returning ErrKeyNotFound to its caller
GetNotFoundIsError(backend, fault) ==
    LET v == ValidateBackend(backend) IN
    IF v # Nil
    THEN [store |-> store, out |-> <<>>, err |-> v, trace |-> <<>>, ring |-> "-"]
    ELSE IF fault = "open"
    THEN [store |-> store, out |-> <<>>, err |-> ErrOpen,
          trace |-> <<"open">>, ring |-> ErrOpen]
    ELSE IF fault # "none"
    THEN [store |-> store, out |-> <<>>, err |-> ErrStore,
          trace |-> <<"open", "get">>, ring |-> ErrStore]
    ELSE IF store[backend] = NoItem
    THEN [store |-> store, out |-> <<>>, err |-> ErrKeyNotFound,
          trace |-> <<"open", "get">>, ring |-> ErrKeyNotFound]
    ELSE IF Size(store[backend].Data) = 0
    THEN [store |-> store, out |-> <<>>, err |-> Nil,
          trace |-> <<"open", "get">>, ring |-> Nil]
    ELSE LET d == decompressConfig(store[backend].Data) IN
         [store |-> store, out |-> d.data, err |-> d.err,
          trace |-> <<"open", "get", "decompress">>, ring |-> Nil]

\* GetConfigFromKeyring falling back to the stored bytes when they do not
\* decompress
GetFallsBackToRaw(backend, fault) ==
    LET v == ValidateBackend(backend) IN
    IF v # Nil
    THEN [store |-> store, out |-> <<>>, err |-> v, trace |-> <<>>, ring |-> "-"]
    ELSE IF fault = "open"
    THEN [store |-> store, out |-> <<>>, err |-> ErrOpen,
          trace |-> <<"open">>, ring |-> ErrOpen]
    ELSE IF fault # "none"
    THEN [store |-> store, out |-> <<>>, err |-> ErrStore,
          trace |-> <<"open", "get">>, ring |-> ErrStore]
    ELSE LET found == store[backend] # NoItem
             credentials == IF found THEN store[backend].Data ELSE <<>>
             ringErr == IF found THEN Nil ELSE ErrKeyNotFound
         IN  IF Size(credentials) = 0
             THEN [store |-> store, out |-> credentials, err |-> Nil,
                   trace |-> <<"open", "get">>, ring |-> ringErr]
             ELSE LET d == decompressConfig(credentials) IN
                  IF d.err # Nil
                  THEN [store |-> store, out |-> credentials, err |-> Nil,
                        trace |-> <<"open", "get", "decompress">>, ring |-> ringErr]
                  ELSE [store |-> store, out |-> d.data, err |-> Nil,
                        trace |-> <<"open", "get", "decompress">>, ring |-> ringErr]

GetConfigFromKeyring(backend, fault) ==
    LET v == ValidateBackend(backend) IN
    IF v # Nil
    THEN [store |-> store, out |-> <<>>, err |-> v, trace |-> <<>>, ring |-> "-"]
    ELSE IF fault = "open"
    THEN [store |-> store, out |-> <<>>, err |-> ErrOpen,
          trace |-> <<"open">>, ring |-> ErrOpen]
    ELSE IF fault # "none"
    THEN [store |-> store, out |-> <<>>, err |-> ErrStore,
          trace |-> <<"open", "get">>, ring |-> ErrStore]
    ELSE LET found == store[backend] # NoItem
             credentials == IF found THEN store[backend].Data ELSE <<>>
             ringErr == IF found THEN Nil ELSE ErrKeyNotFound
         IN  IF Size(credentials) = 0
             THEN [store |-> store, out |-> credentials, err |-> Nil,
                   trace |-> <<"open", "get">>, ring |-> ringErr]
             ELSE LET d == decompressConfig(credentials) IN
                  IF d.err # Nil
                  THEN [store |-> store, out |-> <<>>, err |-> d.err,
                        trace |-> <<"open", "get", "decompress">>, ring |-> ringErr]
                  ELSE [store |-> store, out |-> d.data, err |-> Nil,
                        trace |-> <<"open", "get", "decompress">>, ring |-> ringErr]

----------------------------------------------------------------------------
(* Inputs *)

\* every backend of the keyring library the model names
StoreBackends == Range(AllowedBackends) \cup {FileBackend}
\* backend strings a caller passes
CallBackends == StoreBackends \cup {""}

RECURSIVE SeqsUpTo(_, _)
SeqsUpTo(S, n) ==
    IF n = 0 THEN {<<>>}
    ELSE LET shorter == SeqsUpTo(S, n - 1)
         IN  shorter \cup {Append(s, v) : s \in shorter, v \in S}

NoDuplicates(s) == \A i, j \in DOMAIN s : s[i] = s[j] => i = j

\* what keyring.AvailableBackends() can report
OSReports == {s \in SeqsUpTo(StoreBackends, MaxAvail) : NoDuplicates(s)}

\* The store operations are explored on four reports: no backend, the Windows
\* backend alone, one other allowed backend beside one that is not allowed,
\* and all three.  main.go treats secret-service and pass exactly as it
\* treats keychain.
Platforms ==
    { <<>>,
      <<WinCredBackend>>,
      <<KeychainBackend, FileBackend>>,
      <<FileBackend, WinCredBackend, KeychainBackend>> }

\* bytes a gzip stream adds around a stored block
GzipOverhead == Size(compressConfig(<<65, 66>>).data) - 2

\* runs of one byte value, and one blob that is no run
SmallInputs == {Run(65, n) : n \in 0..MaxRun} \cup {<<65, 66>>}
\* compresses to exactly MaxWindowsByteSize bytes
ExactFit == Payload(MaxWindowsByteSize - GzipOverhead)
\* compresses to MaxWindowsByteSize + 1 bytes
OverFit == Payload(MaxWindowsByteSize - GzipOverhead + 1)

Inputs == SmallInputs \cup {ExactFit, OverFit}

Faults == {"none", "open", "op"}

\* data another program may have left under ItemKey
GoodStream == GzipHeader \o <<1, 2, 0, 253, 255, 65, 66>> \o <<199, 0, 0, 0, 2, 0, 0, 0>>
OtherStream == GzipHeader \o <<3, 65, 1, 0>> \o <<66, 0, 0, 0, 1, 0, 0, 0>>

\* stored data that is not empty and is no gzip stream
ForeignCorrupt ==
    { <<65, 66>>,                                         \* short, not gzip
      Payload(40),                                        \* uncompressed credentials
      Prefix(GoodStream, Len(GoodStream) - 1),            \* truncated stream
      [GoodStream EXCEPT ![Len(GoodStream) - 4] = 7],     \* wrong checksum
      GoodStream \o <<0>> }                               \* garbage after the stream

\* an item with no data, one gzip stream, two gzip members
ForeignValid == {<<>>, GoodStream, GoodStream \o OtherStream}

Foreign == ForeignCorrupt \cup ForeignValid

----------------------------------------------------------------------------
(* State machine *)

NoCall == [op |-> "none", backend |-> "", creds |-> <<>>, out |-> <<>>,
           err |-> Nil, trace |-> <<>>, ring |-> "-", justWritten |-> <<>>]

Init ==
    /\ osAvail \in Platforms
    /\ store = [b \in StoreBackends |-> NoItem]
    /\ last = NoCall
    /\ latest = [b \in StoreBackends |-> <<>>]

\* Each action is one call of a handler; r is what the call returns and the
\* store it leaves.  A fault is an input only of a call that reaches the
\* keyring library.
Upsert(backend, creds, fault) ==
    \E r \in {UpsertConfigToKeyring(backend, creds, fault)} :
    /\ fault # "none" => ValidateBackend(backend) = Nil
    /\ store' = r.store
    /\ last' = [op |-> "upsert", backend |-> backend, creds |-> creds, out |-> r.out,
                err |-> r.err, trace |-> r.trace, ring |-> r.ring,
                justWritten |-> <<>>]
    /\ latest' = IF r.err = Nil THEN [latest EXCEPT ![backend] = <<creds>>] ELSE latest
    /\ UNCHANGED osAvail

Get(backend, fault) ==
    \E r \in {GetConfigFromKeyring(backend, fault)} :
    /\ fault # "none" => ValidateBackend(backend) = Nil
    /\ store' = r.store
    /\ last' = [op |-> "get", backend |-> backend, creds |-> <<>>, out |-> r.out,
                err |-> r.err, trace |-> r.trace, ring |-> r.ring,
                justWritten |->
                    IF last.op = "upsert" /\ last.err = Nil /\ last.backend = backend
                    THEN <<last.creds>> ELSE <<>>]
    /\ UNCHANGED <<osAvail, latest>>

Remove(backend, fault) ==
    \E r \in {RemoveConfigFromKeyring(backend, fault)} :
    /\ fault # "none" => ValidateBackend(backend) = Nil
    /\ fault = "denied" => backend = KeychainBackend
    /\ store' = r.store
    /\ last' = [op |-> "remove", backend |-> backend, creds |-> <<>>, out |-> r.out,
                err |-> r.err, trace |-> r.trace, ring |-> r.ring,
                justWritten |-> <<>>]
    /\ latest' = IF r.err = Nil /\ r.trace # <<>>
                 THEN [latest EXCEPT ![backend] = <<>>] ELSE latest
    /\ UNCHANGED osAvail

Next ==
    \/ \E b \in CallBackends, x \in Inputs, f \in Faults : Upsert(b, x, f)
    \/ \E b \in CallBackends, f \in Faults : Get(b, f)
    \/ \E b \in CallBackends, f \in Faults \cup {"denied"} : Remove(b, f)

Spec == Init /\ [][Next]_vars

\* The same operations where one allowed backend is available and its store
\* already holds an item another program wrote under ItemKey.
InitExt ==
    /\ osAvail \in Platforms
    /\ Len(AvailableBackends) = 1
    /\ \E d \in Foreign :
           store = [c \in StoreBackends |->
                       IF c = AvailableBackends[1] THEN NewItem(d) ELSE NoItem]
    /\ last = NoCall
    /\ latest = [b \in StoreBackends |-> <<>>]

SpecExt == InitExt /\ [][Next]_vars

\* The validator's three functions alone, on every report of the library.
InitV ==
    /\ osAvail \in OSReports
    /\ store = [b \in StoreBackends |-> NoItem]
    /\ last = NoCall
    /\ latest = [b \in StoreBackends |-> <<>>]

Validate(backend) ==
    /\ last' = [NoCall EXCEPT !.op = "validate", !.backend = backend,
                              !.err = ValidateBackend(backend)]
    /\ UNCHANGED <<osAvail, store, latest>>

IsAvailable(backend) ==
    /\ last' = [NoCall EXCEPT !.op = "isAvailable", !.backend = backend,
                              !.out = <<IsBackendAvailable(backend)>>]
    /\ UNCHANGED <<osAvail, store, latest>>

ListAvailable ==
    /\ last' = [NoCall EXCEPT !.op = "listAvailable", !.out = AvailableBackends]
    /\ UNCHANGED <<osAvail, store, latest>>

NextV ==
    \/ \E b \in CallBackends : Validate(b)
    \/ \E b \in CallBackends : IsAvailable(b)
    \/ ListAvailable

SpecV == InitV /\ [][NextV]_vars

----------------------------------------------------------------------------
(* Properties *)

Valid(backend) == ValidateBackend(backend) = Nil

\* the keyring library failed during the last call (not-found is no failure)
RingFailed(call) == call.err \in StoreFailures

\* C1: a get that directly follows a successful upsert on the same backend
\* returns the bytes given to that upsert and no error, unless the keyring
\* library itself fails during the get.
C1_UpsertThenGet ==
    (last.op = "get" /\ last.justWritten # <<>> /\ ~ RingFailed(last))
        => (last.err = Nil /\ last.out = last.justWritten[1])

C1_Witness ==
    /\ last.op = "get" /\ last.backend = WinCredBackend
    /\ last.justWritten = <<ExactFit>>
    /\ last.err = Nil /\ last.out = ExactFit

\* C2: validate answers InvalidBackend for the empty string and for every
\* string outside the allow-list, whether or not the OS reports it;
\* BackendUnavailable for an allowed backend the OS does not report; ok otherwise.
C2_Validate ==
    last.op = "validate" =>
        last.err = IF last.backend = "" \/ last.backend \notin Range(AllowedBackends)
                   THEN ErrKeyringInvalid
                   ELSE IF last.backend \notin Range(osAvail)
                   THEN ErrKeyringUnavailable
                   ELSE Nil

\* allow-list has wincred (A) and keychain (B), the OS reports keychain and
\* file (C): validate(C) is InvalidBackend
C2_Witness ==
    /\ osAvail = <<KeychainBackend, FileBackend>>
    /\ last.op = "validate" /\ last.backend = FileBackend
    /\ last.err = ErrKeyringInvalid

\* C3: only an upsert on a backend that passes validation calls Set or puts
\* data into a store; a call whose backend fails validation attempts no
\* keyring operation and leaves every store as it was.
C3_WriteOnlyAfterValidation ==
    [][ /\ ("set" \in Range(last'.trace) \/ \E b \in StoreBackends :
                store'[b] # store[b] /\ store'[b] # NoItem)
            => (last'.op = "upsert" /\ Valid(last'.backend))
        /\ \A b \in StoreBackends :
               store'[b] # store[b] => (b = last'.backend /\ Valid(b))
        /\ ~ Valid(last'.backend) => (last'.trace = <<>> /\ store' = store)
      ]_vars

C3_Witness ==
    /\ last.op \in {"upsert", "get", "remove"}
    /\ last.err \in {ErrKeyringInvalid, ErrKeyringUnavailable}
    /\ last.trace = <<>>
    /\ \E b \in StoreBackends : store[b] # NoItem

\* C4: on the Windows backend (once the store is open) an upsert whose
\* compressed bytes exceed MaxWindowsByteSize returns the size error, calls no
\* Set and changes no store; one of at most MaxWindowsByteSize compressed bytes
\* is written and succeeds unless Set itself fails; no other call returns the
\* size error.
C4_WindowsCeiling ==
    [][ LET call == last'
            size == Size(compressConfig(call.creds).data)
            win  == call.op = "upsert" /\ call.backend = WinCredBackend
                    /\ Valid(WinCredBackend) /\ call.err # ErrOpen
        IN  /\ (win /\ size > MaxWindowsByteSize)
                => /\ call.err = ErrTooLarge
                   /\ "set" \notin Range(call.trace)
                   /\ store' = store
            /\ (win /\ size <= MaxWindowsByteSize /\ ~ RingFailed(call))
                => /\ call.err = Nil
                   /\ store'[WinCredBackend] = NewItem(compressConfig(call.creds).data)
            /\ call.err = ErrTooLarge
                => (call.op = "upsert" /\ call.backend = WinCredBackend
                    /\ size > MaxWindowsByteSize)
      ]_vars

\* exactly MaxWindowsByteSize compressed bytes were written
C4_Witness ==
    /\ last.op = "upsert" /\ last.backend = WinCredBackend
    /\ last.creds = ExactFit /\ last.err = Nil
    /\ Size(store[WinCredBackend].Data) = MaxWindowsByteSize

\* the size error left an earlier item in place
C4_WitnessTooLarge ==
    /\ last.op = "upsert" /\ last.backend = WinCredBackend
    /\ last.creds = OverFit /\ last.err = ErrTooLarge
    /\ store[WinCredBackend] # NoItem

\* C5: get on a valid, available backend that holds no item returns no bytes
\* and no error (unless the keyring library fails) and changes no store.
C5_GetAbsent ==
    [][ (last'.op = "get" /\ Valid(last'.backend) /\ store[last'.backend] = NoItem)
            => /\ store' = store
               /\ ~ RingFailed(last') => (last'.err = Nil /\ last'.out = <<>>)
      ]_vars

C5_Witness ==
    /\ last.op = "get" /\ Valid(last.backend)
    /\ last.ring = ErrKeyNotFound
    /\ last.err = Nil /\ last.out = <<>>
    /\ store[last.backend] = NoItem

\* C6: remove on a valid, available backend that holds no item returns no
\* error (unless the keyring library fails); a successful remove leaves the
\* item absent, so a remove after a remove succeeds again and changes nothing.
C6_RemoveIdempotent ==
    [][ LET b == last'.backend IN
        (last'.op = "remove" /\ Valid(b)) =>
            /\ (store[b] = NoItem /\ ~ RingFailed(last'))
                   => (last'.err = Nil /\ store' = store)
            /\ last'.err = Nil => store'[b] = NoItem
            /\ (last.op = "remove" /\ last.backend = b /\ last.err = Nil
                /\ ~ RingFailed(last'))
                   => (last'.err = Nil /\ store' = store /\ store'[b] = NoItem)
      ]_vars

C6_Witness ==
    /\ last.op = "remove" /\ Valid(last.backend)
    /\ last.ring = ErrKeyNotFound /\ last.err = Nil
    /\ store[last.backend] = NoItem

C7_WitnessOrder ==
    /\ last.op = "listAvailable"
    /\ last.out = <<PassBackend, WinCredBackend>>

\* C8: each backend holds one item or none: none before the first successful
\* upsert and after a successful remove, otherwise exactly the compressed input
\* of the latest successful upsert; get returns that input, or nothing when the
\* item is absent (unless the keyring library fails).
C8_Lifecycle ==
    /\ \A b \in StoreBackends :
           IF latest[b] = <<>> THEN store[b] = NoItem
           ELSE store[b] = NewItem(compressConfig(latest[b][1]).data)
    /\ (last.op = "get" /\ Valid(last.backend) /\ ~ RingFailed(last))
           => /\ last.err = Nil
              /\ last.out = IF latest[last.backend] = <<>> THEN <<>>
                            ELSE latest[last.backend][1]

\* an item that existed was removed
C8_Witness ==
    /\ last.op = "remove" /\ last.err = Nil /\ last.ring = Nil
    /\ store[last.backend] = NoItem /\ latest[last.backend] = <<>>

\* a get returned the input of the latest upsert, not of one before it
C8_WitnessGet ==
    /\ last.op = "get" /\ last.err = Nil /\ last.justWritten = <<>>
    /\ last.out = <<65, 66>>

\* C9: what is stored under ItemKey is a gzip stream of the bytes given to
\* upsert, never those bytes themselves, also for the empty input; a get that
\* fetches an item decompresses its data.
C9_StoredCompressed ==
    /\ \A b \in StoreBackends : store[b] # NoItem =>
           /\ store[b].Key = ItemKey
           /\ latest[b] # <<>>
           /\ store[b].Data # latest[b][1]
           /\ Prefix(store[b].Data, 3) = <<31, 139, 8>>
           /\ Size(store[b].Data) > Len(GzipHeader)
           /\ decompressConfig(store[b].Data) = [data |-> latest[b][1], err |-> Nil]
    /\ (last.op = "get" /\ last.ring = Nil) => "decompress" \in Range(last.trace)

\* the empty input is stored as a stream that is not empty, and read back
C9_Witness ==
    /\ last.op = "get" /\ last.ring = Nil /\ last.err = Nil /\ last.out = <<>>
    /\ latest[last.backend] = << <<>> >>
    /\ Size(store[last.backend].Data) > 0
    /\ "decompress" \in Range(last.trace)

\* C10: a get that fetches an item whose data is not empty and is no gzip
\* stream returns a decompression error and no bytes.
C10_CorruptIsError ==
    (last.op = "get" /\ last.ring = Nil /\ store[last.backend] # NoItem
     /\ store[last.backend].Data \in ForeignCorrupt)
        => (last.err \in CodecErrors /\ last.out = <<>>)

C10_Witness ==
    /\ last.op = "get" /\ last.ring = Nil
    /\ store[last.backend].Data = Prefix(GoodStream, Len(GoodStream) - 1)
    /\ last.err = ErrUnexpectedEOF /\ last.out = <<>>

C10_WitnessChecksum ==
    /\ last.op = "get" /\ last.ring = Nil
    /\ last.err = ErrChecksum /\ last.out = <<>>

====
